---- MODULE Spec2Model ----
(***************************************************************************)
(* Model of the dLocal connector                                           *)
(*   src/crates/router/src/connector/dlocal.rs                             *)
(*   src/crates/router/src/connector/dlocal/transformers.rs                *)
(*                                                                         *)
(* Conventions.                                                            *)
(*   Option<T>      None is <<>>, Some(v) is <<v>>.                        *)
(*   Result<T, E>   Ok(v) is [ok |-> TRUE, val |-> v],                     *)
(*                  Err(r) is [ok |-> FALSE, err |-> r].                   *)
(*   Report<E>      an error_stack report is the sequence of its contexts, *)
(*                  oldest first; change_context appends; the error kind   *)
(*                  the caller sees is the last element.                   *)
(*   String         a TLA+ string, except the text of a redirect URL,      *)
(*                  which is parsed and is a sequence of one-character     *)
(*                  strings.                                               *)
(*   JSON           a raw body is a JSON value: JStr, JNum, JNull, JObj    *)
(*                  (a function from member names to values), or NotJson   *)
(*                  for bytes that are not JSON at all.                    *)
(***************************************************************************)
EXTENDS Integers, Sequences, FiniteSets, TLC

VARIABLES now, pc, op, flow, req, res, started, clk, result, frames

vars == <<now, pc, op, flow, req, res, started, clk, result, frames>>

(***************************************************************************)
(* Bounds                                                                  *)
(***************************************************************************)
MaxClock == 1
MaxAmount == 2

(***************************************************************************)
(* Option, Result, Report                                                  *)
(***************************************************************************)
None == <<>>
Some(v) == <<v>>
IsSome(o) == o # <<>>
Unwrap(o) == o[1]

Ok(v) == [ok |-> TRUE, val |-> v]
Err(r) == [ok |-> FALSE, err |-> r]

into_report(ctx) == <<ctx>>
change_context(report, ctx) == Append(report, ctx)
current_context(report) == report[Len(report)]

\* Result::change_context: an Ok passes through, an Err gets the new context.
result_change_context(r, ctx) ==
    IF r.ok THEN r ELSE Err(change_context(r.err, ctx))

ErrorKind(r) == current_context(r.err)

(***************************************************************************)
(* errors::ConnectorError kinds used by the connector                      *)
(***************************************************************************)
FailedToObtainAuthType == <<"FailedToObtainAuthType">>
RequestEncodingFailed == <<"RequestEncodingFailed">>
ResponseDeserializationFailed == <<"ResponseDeserializationFailed">>
ResponseHandlingFailed == <<"ResponseHandlingFailed">>
MissingConnectorTransactionID == <<"MissingConnectorTransactionID">>
MissingRequiredField(field_name) == <<"MissingRequiredField", field_name>>
NotImplemented(what) == <<"NotImplemented", what>>

(***************************************************************************)
(* Flows                                                                   *)
(***************************************************************************)
Flows == {"Authorize", "PSync", "Capture", "Void", "Execute", "RSync"}
PaymentFlows == {"Authorize", "PSync", "Capture", "Void"}
RefundFlows == {"Execute", "RSync"}

(***************************************************************************)
(* JSON values                                                             *)
(***************************************************************************)
NotJson == [t |-> "bytes"]
JNull == [t |-> "null"]
JStr(s) == [t |-> "str", s |-> s]
JNum(n) == [t |-> "num", n |-> n]
JObj(f) == [t |-> "obj", fields |-> f]

HasMember(j, k) == j.t = "obj" /\ k \in DOMAIN j.fields
Member(j, k) == j.fields[k]

\* serde_json output of the value kinds the request bodies use
Quote(s) == "\"" \o s \o "\""
OptQuote(o) == IF IsSome(o) THEN Quote(Unwrap(o)) ELSE "null"

(***************************************************************************)
(* Inputs: the canonical request (RouterData) of every flow                *)
(***************************************************************************)
SignatureKey(api_key, key1, api_secret) ==
    [variant |-> "SignatureKey", api_key |-> api_key, key1 |-> key1,
     api_secret |-> api_secret]
HeaderKey(api_key) == [variant |-> "HeaderKey", api_key |-> api_key]
BodyKey(api_key, key1) ==
    [variant |-> "BodyKey", api_key |-> api_key, key1 |-> key1]

ConnectorAuthTypes ==
    {SignatureKey("login1", "transkey1", "secret1"),
     HeaderKey("login1"),
     BodyKey("login1", "transkey1")}

Amounts == 1..MaxAmount
Currencies == {"BRL", "USD"}
ReturnUrls == {None, Some("https://merchant.test/return")}
Connectors == [dlocal |-> [base_url |-> "https://sandbox.dlocal.test/"]]

Ccard ==
    [card_holder_name |-> "Jane Doe", card_number |-> "4111111111111111",
     card_cvc |-> "123", card_exp_month |-> "10", card_exp_year |-> "2030"]

PaymentMethods ==
    {[variant |-> "Card", card |-> Ccard],
     [variant |-> "Wallet"],
     [variant |-> "BankTransfer"]}

CaptureMethods == {None, Some("Automatic"), Some("Manual"), Some("Scheduled")}
MandateIds == {None, Some([mandate_id |-> "mandate1"])}
Emails == {None, Some("jane@example.test")}

\* RouterData: the fields the connector reads or writes (connector_auth_type,
\* payment_id, return_url, status, response, request) and the address field,
\* which holds the billing address; response is the value the snapshot holds
\* before the connector answers
PriorResponse == Err([code |-> "", message |-> "", reason |-> None, status_code |-> 500])

RouterData(auth, return_url, address, status, request) ==
    [connector_auth_type |-> auth, payment_id |-> "pay1",
     return_url |-> return_url, address |-> address, status |-> status,
     response |-> PriorResponse, request |-> request]

PaymentsAuthorizeData ==
    [email : Emails, payment_method_data : PaymentMethods,
     capture_method : CaptureMethods, mandate_id : MandateIds,
     amount : Amounts, currency : Currencies]

\* types::ResponseId
ResponseIds ==
    {[variant |-> "ConnectorTransactionId", id |-> "txn1"],
     [variant |-> "EncodedData", data |-> "enc1"],
     [variant |-> "NoResponseId"]}

PaymentsSyncData == [connector_transaction_id : ResponseIds]

PaymentsCaptureData ==
    [amount_to_capture : {None} \cup {Some(a) : a \in Amounts},
     amount : Amounts, currency : Currencies,
     connector_transaction_id : {"txn1"}]

PaymentsCancelData == [connector_transaction_id : {"txn1"}]

RefundsData ==
    [refund_id : {"ref1"}, connector_transaction_id : {"txn1"},
     refund_amount : Amounts, currency : Currencies,
     connector_refund_id : {None, Some("dref1")}]

RequestData(f) ==
    CASE f = "Authorize" -> PaymentsAuthorizeData
      [] f = "PSync" -> PaymentsSyncData
      [] f = "Capture" -> PaymentsCaptureData
      [] f = "Void" -> PaymentsCancelData
      [] f \in RefundFlows -> RefundsData

PriorStatuses(f) ==
    CASE f = "Authorize" -> {"Started"}
      [] f = "PSync" -> {"AuthenticationPending"}
      [] f = "Capture" -> {"Authorized"}
      [] f = "Void" -> {"Authorized"}
      [] f \in RefundFlows -> {"Charged"}

\* types::PaymentAddress: the billing address, with its country, is optional
Addresses(f) ==
    IF f = "Authorize"
    THEN {[billing |-> None], [billing |-> Some([country |-> Some("US")])]}
    ELSE {[billing |-> None]}

RouterDatas(f) ==
    {RouterData(a, u, ad, s, r) :
        a \in ConnectorAuthTypes, u \in ReturnUrls, ad \in Addresses(f),
        s \in PriorStatuses(f), r \in RequestData(f)}

(***************************************************************************)
(* transformers.rs: request direction                                      *)
(***************************************************************************)
get_currency(item) == IF item = "BRL" THEN "BR" ELSE "IN"


\* variant of should_capture: everything but a manual capture captures
should_capture_unless_manual(item) == item.request.capture_method # Some("Manual")

should_capture(item) == item.request.capture_method = Some("Automatic")

bool_to_string(b) == IF b THEN "true" ELSE "false"

notification_url(item) ==
    IF IsSome(item.return_url) THEN Unwrap(item.return_url)
    ELSE "http://wwww.sandbox.juspay.in/hackathon/H1005"

installments_id(item) ==
    IF IsSome(item.request.mandate_id)
    THEN Some(Unwrap(item.request.mandate_id).mandate_id) ELSE None

installments(item) ==
    IF IsSome(item.request.mandate_id) THEN Some("1") ELSE None

\* variant of email_of: a missing email is replaced by a placeholder
email_of_default(item) ==
    IF IsSome(item.request.email) THEN Ok(Unwrap(item.request.email))
    ELSE Ok("dummyEmail@gmail.com")

email_of(item) ==
    IF IsSome(item.request.email) THEN Ok(Unwrap(item.request.email))
    ELSE Err(into_report(MissingRequiredField("email_id")))


\* variant of DlocalPaymentsRequest_try_from: the match has no arm of its own
\* for the unsupported variants, which fall into the wallet arm
DlocalPaymentsRequest_try_from_wallet_fallthrough(item) ==
    LET email == email_of(item)
        pmd == item.request.payment_method_data
    IN  IF ~email.ok THEN email
        ELSE IF pmd.variant = "Card" THEN
            Ok([amount |-> item.request.amount,
                currency |-> item.request.currency,
                country |-> Some(get_currency(item.request.currency)),
                payment_method_id |-> "CARD",
                payment_method_flow |-> "DIRECT",
                payer |-> [name |-> pmd.card.card_holder_name,
                           email |-> email.val,
                           document |-> "36691251830"],
                card |-> Some([holder_name |-> pmd.card.card_holder_name,
                               number |-> pmd.card.card_number,
                               cvv |-> pmd.card.card_cvc,
                               expiration_month |-> pmd.card.card_exp_month,
                               expiration_year |-> pmd.card.card_exp_year,
                               capture |-> bool_to_string(should_capture(item)),
                               installments_id |-> installments_id(item),
                               installments |-> installments(item)]),
                order_id |-> item.payment_id,
                notification_url |-> notification_url(item),
                three_dsecure |-> None,
                callback_url |-> item.return_url])
        ELSE
            Ok([amount |-> item.request.amount,
                currency |-> item.request.currency,
                country |-> Some(get_currency(item.request.currency)),
                payment_method_id |-> "MP",
                payment_method_flow |-> "REDIRECT",
                payer |-> [name |-> "dummyEmail@gmail.com",
                           email |-> email.val,
                           document |-> "36691251830"],
                card |-> None,
                order_id |-> item.payment_id,
                notification_url |-> notification_url(item),
                three_dsecure |-> None,
                callback_url |-> item.return_url])

DlocalPaymentsRequest_try_from(item) ==
    LET email == email_of(item)
        pmd == item.request.payment_method_data
    IN  IF ~email.ok THEN email
        ELSE IF pmd.variant = "Card" THEN
            Ok([amount |-> item.request.amount,
                currency |-> item.request.currency,
                country |-> Some(get_currency(item.request.currency)),
                payment_method_id |-> "CARD",
                payment_method_flow |-> "DIRECT",
                payer |-> [name |-> pmd.card.card_holder_name,
                           email |-> email.val,
                           document |-> "36691251830"],
                card |-> Some([holder_name |-> pmd.card.card_holder_name,
                               number |-> pmd.card.card_number,
                               cvv |-> pmd.card.card_cvc,
                               expiration_month |-> pmd.card.card_exp_month,
                               expiration_year |-> pmd.card.card_exp_year,
                               capture |-> bool_to_string(should_capture(item)),
                               installments_id |-> installments_id(item),
                               installments |-> installments(item)]),
                order_id |-> item.payment_id,
                notification_url |-> notification_url(item),
                three_dsecure |-> None,
                callback_url |-> item.return_url])
        ELSE IF pmd.variant = "Wallet" THEN
            Ok([amount |-> item.request.amount,
                currency |-> item.request.currency,
                country |-> Some(get_currency(item.request.currency)),
                payment_method_id |-> "MP",
                payment_method_flow |-> "REDIRECT",
                payer |-> [name |-> "dummyEmail@gmail.com",
                           email |-> email.val,
                           document |-> "36691251830"],
                card |-> None,
                order_id |-> item.payment_id,
                notification_url |-> notification_url(item),
                three_dsecure |-> None,
                callback_url |-> item.return_url])
        ELSE Err(into_report(NotImplemented("Current Payment Method")))

\* types::ResponseId::get_connector_transaction_id
get_connector_transaction_id(id) ==
    IF id.variant = "ConnectorTransactionId" THEN Ok(id.id)
    ELSE Err(into_report(<<"IncorrectValueProvided", "connector_transaction_id">>))

DlocalPaymentsSyncRequest_try_from(item) ==
    LET id == result_change_context(
                  get_connector_transaction_id(item.request.connector_transaction_id),
                  MissingConnectorTransactionID)
    IN  IF id.ok THEN Ok([authz_id |-> id.val]) ELSE id

DlocalPaymentsCancelRequest_try_from(item) ==
    Ok([cancel_id |-> item.request.connector_transaction_id])

\* variant of amount_to_capture: the partial amount is ignored
amount_to_capture_full(item) == item.request.amount

amount_to_capture(item) ==
    IF IsSome(item.request.amount_to_capture)
    THEN Unwrap(item.request.amount_to_capture)
    ELSE item.request.amount

DlocalPaymentsCaptureRequest_try_from(item) ==
    Ok([authorization_id |-> item.request.connector_transaction_id,
        amount |-> amount_to_capture(item),
        currency |-> item.request.currency,
        order_id |-> item.payment_id])

RefundRequest_try_from(item) ==
    Ok([amount |-> ToString(item.request.refund_amount),
        payment_id |-> item.request.connector_transaction_id,
        currency |-> item.request.currency,
        id |-> item.request.refund_id,
        notification_url |->
            IF IsSome(item.return_url) THEN Unwrap(item.return_url)
            ELSE "https://google.com"])

\* variant of DlocalRefundsSyncRequest_try_from: always the internal refund id
DlocalRefundsSyncRequest_try_from_internal(item) ==
    Ok([refund_id |-> item.request.refund_id])

DlocalRefundsSyncRequest_try_from(item) ==
    Ok([refund_id |->
            IF IsSome(item.request.connector_refund_id)
            THEN Unwrap(item.request.connector_refund_id)
            ELSE item.request.refund_id])

\* variant of DlocalAuthType_try_from: a body-key auth is accepted with an
\* empty signing secret
DlocalAuthType_try_from_lenient(auth_type) ==
    IF auth_type.variant = "SignatureKey"
    THEN Ok([x_login |-> auth_type.api_key,
             x_trans_key |-> auth_type.key1,
             secret |-> auth_type.api_secret])
    ELSE IF auth_type.variant = "BodyKey"
    THEN Ok([x_login |-> auth_type.api_key,
             x_trans_key |-> auth_type.key1,
             secret |-> ""])
    ELSE Err(into_report(FailedToObtainAuthType))

DlocalAuthType_try_from(auth_type) ==
    IF auth_type.variant = "SignatureKey"
    THEN Ok([x_login |-> auth_type.api_key,
             x_trans_key |-> auth_type.key1,
             secret |-> auth_type.api_secret])
    ELSE Err(into_report(FailedToObtainAuthType))

\* the request transformer of each flow
request_try_from(f, item) ==
    CASE f = "Authorize" -> DlocalPaymentsRequest_try_from(item)
      [] f = "PSync" -> DlocalPaymentsSyncRequest_try_from(item)
      [] f = "Capture" -> DlocalPaymentsCaptureRequest_try_from(item)
      [] f = "Void" -> DlocalPaymentsCancelRequest_try_from(item)
      [] f = "Execute" -> RefundRequest_try_from(item)
      [] f = "RSync" -> DlocalRefundsSyncRequest_try_from(item)

(***************************************************************************)
(* serde_json::to_string of the derived Serialize of each body struct      *)
(***************************************************************************)
serialize_Payer(p) ==
    "{\"name\":" \o Quote(p.name) \o ",\"email\":" \o Quote(p.email)
    \o ",\"document\":" \o Quote(p.document) \o "}"

serialize_Card(c) ==
    "{\"holder_name\":" \o Quote(c.holder_name)
    \o ",\"number\":" \o Quote(c.number)
    \o ",\"cvv\":" \o Quote(c.cvv)
    \o ",\"expiration_month\":" \o Quote(c.expiration_month)
    \o ",\"expiration_year\":" \o Quote(c.expiration_year)
    \o ",\"capture\":" \o Quote(c.capture)
    \o ",\"installments_id\":" \o OptQuote(c.installments_id)
    \o ",\"installments\":" \o OptQuote(c.installments) \o "}"

serialize_DlocalPaymentsRequest(r) ==
    "{\"amount\":" \o ToString(r.amount)
    \o ",\"currency\":" \o Quote(r.currency)
    \o ",\"country\":" \o OptQuote(r.country)
    \o ",\"payment_method_id\":" \o Quote(r.payment_method_id)
    \o ",\"payment_method_flow\":" \o Quote(r.payment_method_flow)
    \o ",\"payer\":" \o serialize_Payer(r.payer)
    \o ",\"card\":" \o (IF IsSome(r.card) THEN serialize_Card(Unwrap(r.card)) ELSE "null")
    \o ",\"order_id\":" \o Quote(r.order_id)
    \o ",\"notification_url\":" \o Quote(r.notification_url)
    \o ",\"three_dsecure\":null"
    \o ",\"callback_url\":" \o OptQuote(r.callback_url) \o "}"

serialize_DlocalPaymentsCaptureRequest(r) ==
    "{\"authorization_id\":" \o Quote(r.authorization_id)
    \o ",\"amount\":" \o ToString(r.amount)
    \o ",\"currency\":" \o Quote(r.currency)
    \o ",\"order_id\":" \o Quote(r.order_id) \o "}"

serialize_RefundRequest(r) ==
    "{\"amount\":" \o Quote(r.amount)
    \o ",\"payment_id\":" \o Quote(r.payment_id)
    \o ",\"currency\":" \o Quote(r.currency)
    \o ",\"notification_url\":" \o Quote(r.notification_url)
    \o ",\"id\":" \o Quote(r.id) \o "}"

(***************************************************************************)
(* dlocal.rs: the request path                                             *)
(***************************************************************************)
BodyFlows == {"Authorize", "Capture", "Execute"}

\* utils::Encode::convert_and_encode: the flow's try_from, then to_string
convert_and_encode(f, item) ==
    LET r == request_try_from(f, item)
    IN  IF ~r.ok THEN r
        ELSE Ok(CASE f = "Authorize" -> serialize_DlocalPaymentsRequest(r.val)
                  [] f = "Capture" -> serialize_DlocalPaymentsCaptureRequest(r.val)
                  [] f = "Execute" -> serialize_RefundRequest(r.val))

\* ConnectorIntegration::get_request_body when a flow does not override it
default_get_request_body(item) == Ok(None)

get_request_body(f, item) ==
    IF f \in BodyFlows THEN
        LET dlocal_req == result_change_context(convert_and_encode(f, item),
                                                RequestEncodingFailed)
        IN  IF dlocal_req.ok THEN Ok(Some(dlocal_req.val)) ELSE dlocal_req
    ELSE IF f = "Void" THEN Ok(None)
    ELSE default_get_request_body(item)

base_url(connectors) == connectors.dlocal.base_url

get_url(f, item, connectors) ==
    CASE f = "Authorize" -> Ok(base_url(connectors) \o "secure_payments")
      [] f = "Capture" -> Ok(base_url(connectors) \o "payments")
      [] f = "Execute" -> Ok(base_url(connectors) \o "refunds")
      [] f = "PSync" ->
            LET sync_data == DlocalPaymentsSyncRequest_try_from(item)
            IN  IF ~sync_data.ok THEN sync_data
                ELSE Ok(base_url(connectors) \o "payments/"
                        \o sync_data.val.authz_id \o "/status")
      [] f = "Void" ->
            LET cancel_data == DlocalPaymentsCancelRequest_try_from(item)
            IN  IF ~cancel_data.ok THEN cancel_data
                ELSE Ok(base_url(connectors) \o "payments/"
                        \o cancel_data.val.cancel_id \o "/cancel")
      [] f = "RSync" ->
            LET sync_data == DlocalRefundsSyncRequest_try_from(item)
            IN  IF ~sync_data.ok THEN sync_data
                ELSE Ok(base_url(connectors) \o "refunds/"
                        \o sync_data.val.refund_id \o "/status")

\* common_utils::date_time::date_as_yyyymmddthhmmssmmmz on a clock reading of
\* t milliseconds past 2023-01-01T00:00:00Z; the formatter's Result can be an Err
Pad2(n) == (IF n < 10 THEN "0" ELSE "") \o ToString(n)
Pad3(n) == (IF n < 10 THEN "00" ELSE IF n < 100 THEN "0" ELSE "") \o ToString(n)

date_as_yyyymmddthhmmssmmmz(t, format_ok) ==
    IF format_ok
    THEN Ok("20230101T" \o Pad2((t \div 3600000) % 24) \o Pad2((t \div 60000) % 60)
            \o Pad2((t \div 1000) % 60) \o "." \o Pad3(t % 1000) \o "Z")
    ELSE Err(<<"time::error::Format">>)

\* crypto::HmacSha256::sign_message followed by hex::encode: the digest is
\* kept as the term of its key and message
HmacSha256_sign_message(secret, msg) ==
    Ok([alg |-> "HMAC-SHA-256", key |-> secret, msg |-> msg])

encode(digest) == "hex(hmacsha256(" \o digest.key \o "," \o digest.msg \o "))"

common_get_content_type == "application/json"

\* variant of sign_req: the body is left out of the signed string
sign_req_no_body(auth, date, dlocal_req) == auth.x_login \o date

sign_req(auth, date, dlocal_req) == auth.x_login \o date \o dlocal_req

headers_vec(auth, date, auth_string) ==
    << <<"Authorization", auth_string>>,
       <<"X-Login", auth.x_login>>,
       <<"X-Trans-Key", auth.x_trans_key>>,
       <<"X-Version", "2.1">>,
       <<"X-Date", date>>,
       <<"Content-Type", common_get_content_type>> >>

\* variant of build_headers: the credentials are resolved before the body is
\* built
build_headers_auth_first(f, item, clock) ==
    LET body == get_request_body(f, item)
        dlocal_req == IF IsSome(body.val) THEN Unwrap(body.val) ELSE ""
        date == result_change_context(clock, RequestEncodingFailed)
        auth == DlocalAuthType_try_from(item.connector_auth_type)
        authz == result_change_context(
                     HmacSha256_sign_message(auth.val.secret,
                         sign_req(auth.val, date.val, dlocal_req)),
                     RequestEncodingFailed)
    IN  IF ~auth.ok THEN auth
        ELSE IF ~body.ok THEN body
        ELSE IF ~date.ok THEN date
        ELSE IF ~authz.ok THEN authz
        ELSE Ok(headers_vec(auth.val, date.val,
                    "V2-HMAC-SHA256, Signature: " \o encode(authz.val)))

\* clock is the Result of the clock reading this call makes, if it makes one
build_headers(f, item, clock) ==
    LET body == get_request_body(f, item)
        dlocal_req == IF IsSome(body.val) THEN Unwrap(body.val) ELSE ""
        date == result_change_context(clock, RequestEncodingFailed)
        auth == DlocalAuthType_try_from(item.connector_auth_type)
        authz == result_change_context(
                     HmacSha256_sign_message(auth.val.secret,
                         sign_req(auth.val, date.val, dlocal_req)),
                     RequestEncodingFailed)
    IN  IF ~body.ok THEN body
        ELSE IF ~date.ok THEN date
        ELSE IF ~auth.ok THEN auth
        ELSE IF ~authz.ok THEN authz
        ELSE Ok(headers_vec(auth.val, date.val,
                    "V2-HMAC-SHA256, Signature: " \o encode(authz.val)))

get_headers(f, item, clock) == build_headers(f, item, clock)


\* build_headers after its clock reading: credentials, signature, header list
sign_headers(item, date, dlocal_req) ==
    LET auth == DlocalAuthType_try_from(item.connector_auth_type)
        authz == result_change_context(
                     HmacSha256_sign_message(auth.val.secret,
                         sign_req(auth.val, date, dlocal_req)),
                     RequestEncodingFailed)
    IN  IF ~auth.ok THEN auth
        ELSE IF ~authz.ok THEN authz
        ELSE Ok(headers_vec(auth.val, date,
                    "V2-HMAC-SHA256, Signature: " \o encode(authz.val)))

\* variant of Method: only the payment sync is a GET
Method_psync_only(f) == IF f = "PSync" THEN "Get" ELSE "Post"

Method(f) == IF f \in {"PSync", "RSync"} THEN "Get" ELSE "Post"

\* variant of build_request: the headers are evaluated before the url
build_request_headers_first(f, item, connectors, clock) ==
    LET url == get_url(f, item, connectors)
        headers == get_headers(f, item, clock)
        body == get_request_body(f, item)
    IN  IF ~headers.ok THEN headers
        ELSE IF ~url.ok THEN url
        ELSE IF f \in BodyFlows /\ ~body.ok THEN body
        ELSE Ok(Some([method |-> Method(f), url |-> url.val,
                      headers |-> headers.val,
                      body |-> IF f \in BodyFlows THEN body.val ELSE None]))

\* the arguments of the builder chain are evaluated in the order written:
\* url, then headers, then (for the flows that attach one) body
build_request(f, item, connectors, clock) ==
    LET url == get_url(f, item, connectors)
        headers == get_headers(f, item, clock)
        body == get_request_body(f, item)
    IN  IF ~url.ok THEN url
        ELSE IF ~headers.ok THEN headers
        ELSE IF f \in BodyFlows /\ ~body.ok THEN body
        ELSE Ok(Some([method |-> Method(f), url |-> url.val,
                      headers |-> headers.val,
                      body |-> IF f \in BodyFlows THEN body.val ELSE None]))

\* does the call reach the clock reading of build_headers?
headers_read_clock(f, item) == get_request_body(f, item).ok
request_reads_clock(f, item, connectors) ==
    get_url(f, item, connectors).ok /\ headers_read_clock(f, item)

(***************************************************************************)
(* serde_json::from_slice through the derived Deserialize of each response *)
(* type (parse_struct): required members must be present and well typed,   *)
(* an Option member may be missing or null, unknown members are ignored.   *)
(***************************************************************************)
ParsingError(type_name) == <<"ParsingError", type_name>>

\* #[serde(rename_all = "UPPERCASE")] enum DlocalPaymentStatus
DlocalPaymentStatusNames ==
    [AUTHORIZED |-> "Authorized", PAID |-> "Paid", VERIFIED |-> "Verified",
     CANCELLED |-> "Cancelled", PENDING |-> "Pending", REJECTED |-> "Rejected"]

\* #[serde(rename_all = "UPPERCASE")] enum RefundStatus
RefundStatusNames ==
    [SUCCESS |-> "Success", PENDING |-> "Pending", REJECTED |-> "Rejected",
     CANCELLED |-> "Cancelled"]

IsEnum(j, names) == j.t = "str" /\ j.s \in DOMAIN names
IsOptional(j, k) == ~HasMember(j, k) \/ Member(j, k).t = "null"

ThreeDSecureResData_ok(j) ==
    /\ j.t = "obj"
    /\ IsOptional(j, "redirect_url") \/ Member(j, "redirect_url").t = "str"

ThreeDSecureResData_parse(j) ==
    [redirect_url |-> IF IsOptional(j, "redirect_url") THEN None
                      ELSE Some(Member(j, "redirect_url").s)]

DlocalPaymentsResponse_ok(j) ==
    /\ j.t = "obj"
    /\ HasMember(j, "status") /\ IsEnum(Member(j, "status"), DlocalPaymentStatusNames)
    /\ HasMember(j, "id") /\ Member(j, "id").t = "str"
    /\ IsOptional(j, "three_dsecure")
         \/ ThreeDSecureResData_ok(Member(j, "three_dsecure"))

DlocalPaymentsResponse_parse(j) ==
    IF DlocalPaymentsResponse_ok(j)
    THEN Ok([status |-> DlocalPaymentStatusNames[Member(j, "status").s],
             id |-> Member(j, "id").s,
             three_dsecure |->
                 IF IsOptional(j, "three_dsecure") THEN None
                 ELSE Some(ThreeDSecureResData_parse(Member(j, "three_dsecure")))])
    ELSE Err(into_report(ParsingError("DlocalPaymentsResponse")))

RefundResponse_ok(j) ==
    /\ j.t = "obj"
    /\ HasMember(j, "id") /\ Member(j, "id").t = "str"
    /\ HasMember(j, "status") /\ IsEnum(Member(j, "status"), RefundStatusNames)

RefundResponse_parse(j) ==
    IF RefundResponse_ok(j)
    THEN Ok([id |-> Member(j, "id").s,
             status |-> RefundStatusNames[Member(j, "status").s]])
    ELSE Err(into_report(ParsingError("RefundResponse")))

\* code: i32; a JNum holds an integer of that range
DlocalErrorResponse_ok(j) ==
    /\ j.t = "obj"
    /\ HasMember(j, "code") /\ Member(j, "code").t = "num"
    /\ HasMember(j, "message") /\ Member(j, "message").t = "str"
    /\ IsOptional(j, "param") \/ Member(j, "param").t = "str"

DlocalErrorResponse_parse(j) ==
    IF DlocalErrorResponse_ok(j)
    THEN Ok([code |-> Member(j, "code").n,
             message |-> Member(j, "message").s,
             param |-> IF IsOptional(j, "param") THEN None
                       ELSE Some(Member(j, "param").s)])
    ELSE Err(into_report(ParsingError("DlocalErrorResponse")))

(***************************************************************************)
(* reqwest::Url::parse and Url::query_pairs on the text of a URL           *)
(***************************************************************************)
Alpha == {"a", "b", "c", "d", "e", "f", "g", "h", "i", "j", "k", "l", "m",
          "n", "o", "p", "q", "r", "s", "t", "u", "v", "w", "x", "y", "z"}
Digit == {"0", "1", "2", "3", "4", "5", "6", "7", "8", "9"}
SchemeChar == Alpha \cup Digit \cup {"+", "-", "."}
SpecialSchemes == {<<"h", "t", "t", "p">>, <<"h", "t", "t", "p", "s">>}

\* the first index of s holding a character of cs, or 0
IndexOfAny(s, cs) ==
    IF \E i \in 1..Len(s) : s[i] \in cs
    THEN CHOOSE i \in 1..Len(s) : s[i] \in cs /\ \A j \in 1..(i - 1) : s[j] \notin cs
    ELSE 0

Before(s, cs) ==
    IF IndexOfAny(s, cs) = 0 THEN s ELSE SubSeq(s, 1, IndexOfAny(s, cs) - 1)
After(s, cs) ==
    IF IndexOfAny(s, cs) = 0 THEN <<>> ELSE SubSeq(s, IndexOfAny(s, cs) + 1, Len(s))

RECURSIVE StripSlashes(_)
StripSlashes(s) ==
    IF s # <<>> /\ Head(s) \in {"/", "\\"} THEN StripSlashes(Tail(s)) ELSE s

Url_parse(s) ==
    LET colon == IndexOfAny(s, {":"})
        scheme == SubSeq(s, 1, colon - 1)
        rest == SubSeq(s, colon + 1, Len(s))
        no_fragment == Before(rest, {"#"})
        host == Before(StripSlashes(no_fragment), {"/", "\\", "?"})
    IN  IF colon < 2 \/ scheme[1] \notin Alpha
           \/ \E i \in 1..Len(scheme) : scheme[i] \notin SchemeChar
        THEN Err(into_report(<<"url::ParseError", "RelativeUrlWithoutBase">>))
        ELSE IF scheme \in SpecialSchemes /\ host = <<>>
        THEN Err(into_report(<<"url::ParseError", "EmptyHost">>))
        ELSE Ok([scheme |-> scheme,
                 query |-> IF IndexOfAny(no_fragment, {"?"}) = 0 THEN None
                           ELSE Some(After(no_fragment, {"?"}))])

RECURSIVE Split(_, _)
Split(s, c) ==
    IF IndexOfAny(s, {c}) = 0 THEN <<s>>
    ELSE <<Before(s, {c})>> \o Split(After(s, {c}), c)

\* application/x-www-form-urlencoded decoding of one name or value
form_decode(s) == [i \in 1..Len(s) |-> IF s[i] = "+" THEN " " ELSE s[i]]

RECURSIVE pairs_of(_)
pairs_of(pieces) ==
    IF pieces = <<>> THEN <<>>
    ELSE IF Head(pieces) = <<>> THEN pairs_of(Tail(pieces))
    ELSE << <<form_decode(Before(Head(pieces), {"="})),
              form_decode(After(Head(pieces), {"="}))>> >> \o pairs_of(Tail(pieces))

query_pairs(url) ==
    IF IsSome(url.query) THEN pairs_of(Split(Unwrap(url.query), "&")) ELSE <<>>

\* variant of HashMap_from_iter: the first pair of a key is kept
HashMap_from_iter_first_wins(pairs) ==
    [k \in {pairs[i][1] : i \in 1..Len(pairs)} |->
        pairs[CHOOSE i \in 1..Len(pairs) :
                 pairs[i][1] = k /\ \A j \in 1..(i - 1) : pairs[j][1] # k][2]]

\* HashMap::from_iter: a later pair replaces an earlier one of the same key
HashMap_from_iter(pairs) ==
    [k \in {pairs[i][1] : i \in 1..Len(pairs)} |->
        pairs[CHOOSE i \in 1..Len(pairs) :
                 pairs[i][1] = k /\ \A j \in (i + 1)..Len(pairs) : pairs[j][1] # k][2]]

(***************************************************************************)
(* transformers.rs: response direction                                     *)
(***************************************************************************)
\* variant of AttemptStatus_from: Verified is taken for a completed charge
AttemptStatus_from_verified_charged(item) ==
    CASE item = "Authorized" -> "Authorized"
      [] item = "Verified" -> "Charged"
      [] item = "Paid" -> "Charged"
      [] item = "Pending" -> "AuthenticationPending"
      [] item = "Cancelled" -> "Voided"
      [] item = "Rejected" -> "AuthenticationFailed"

AttemptStatus_from(item) ==
    CASE item = "Authorized" -> "Authorized"
      [] item = "Verified" -> "Authorized"
      [] item = "Paid" -> "Charged"
      [] item = "Pending" -> "AuthenticationPending"
      [] item = "Cancelled" -> "Voided"
      [] item = "Rejected" -> "AuthenticationFailed"

\* variant of RefundStatus_from: a rejected refund is reported as failed
RefundStatus_from_rejected_failure(item) ==
    CASE item = "Success" -> "Success"
      [] item = "Pending" -> "Pending"
      [] item = "Rejected" -> "Failure"
      [] item = "Cancelled" -> "Failure"

RefundStatus_from(item) ==
    CASE item = "Success" -> "Success"
      [] item = "Pending" -> "Pending"
      [] item = "Rejected" -> "ManualReview"
      [] item = "Cancelled" -> "Failure"


\* variant of three_ds_data: a redirect URL that does not parse is dropped
three_ds_data_lenient(response) ==
    IF ~IsSome(response.three_dsecure) THEN Ok(None)
    ELSE IF ~IsSome(Unwrap(response.three_dsecure).redirect_url) THEN Ok(None)
    ELSE LET redirect_url == Unwrap(Unwrap(response.three_dsecure).redirect_url)
             redirection_url_response ==
                 result_change_context(Url_parse(redirect_url), ResponseHandlingFailed)
         IN  IF ~redirection_url_response.ok THEN Ok(None)
             ELSE Ok(Some([url |-> redirect_url, method |-> "Get",
                           form_fields |-> HashMap_from_iter(
                               query_pairs(redirection_url_response.val))]))

three_ds_data(response) ==
    IF ~IsSome(response.three_dsecure) THEN Ok(None)
    ELSE IF ~IsSome(Unwrap(response.three_dsecure).redirect_url) THEN Ok(None)
    ELSE LET redirect_url == Unwrap(Unwrap(response.three_dsecure).redirect_url)
             redirection_url_response ==
                 result_change_context(Url_parse(redirect_url), ResponseHandlingFailed)
         IN  IF ~redirection_url_response.ok THEN redirection_url_response
             ELSE Ok(Some([url |-> redirect_url, method |-> "Get",
                           form_fields |-> HashMap_from_iter(
                               query_pairs(redirection_url_response.val))]))

\* item is ResponseRouterData {response, data, http_code}
PaymentsRouterData_try_from(item) ==
    LET redirect == three_ds_data(item.response)
    IN  IF ~redirect.ok THEN redirect
        ELSE Ok([item.data EXCEPT
                 !.status = AttemptStatus_from(item.response.status),
                 !.response = Ok([resource_id |->
                                      [variant |-> "ConnectorTransactionId",
                                       id |-> item.response.id],
                                  redirection_data |-> redirect.val,
                                  redirect |-> IsSome(redirect.val),
                                  mandate_reference |-> None,
                                  connector_metadata |-> None])])

\* variant of RefundsRouterData_try_from: the result is rebuilt and the
\* return URL of the snapshot is lost
RefundsRouterData_try_from_rebuilt(item) ==
    Ok([item.data EXCEPT
        !.return_url = None,
        !.response = Ok([connector_refund_id |-> item.response.id,
                         refund_status |-> RefundStatus_from(item.response.status)])])

RefundsRouterData_try_from(item) ==
    Ok([item.data EXCEPT
        !.response = Ok([connector_refund_id |-> item.response.id,
                         refund_status |-> RefundStatus_from(item.response.status)])])

(***************************************************************************)
(* dlocal.rs: the response path                                            *)
(***************************************************************************)
\* the context each flow's handle_response gives a body that fails to parse
deserialization_context(f) ==
    IF f = "Execute" THEN RequestEncodingFailed ELSE ResponseDeserializationFailed

handle_response(f, data, r) ==
    LET response ==
            result_change_context(
                IF f \in PaymentFlows THEN DlocalPaymentsResponse_parse(r.response)
                ELSE RefundResponse_parse(r.response),
                deserialization_context(f))
        item == [response |-> response.val, data |-> data,
                 http_code |-> r.status_code]
    IN  IF ~response.ok THEN response
        ELSE result_change_context(
                 IF f \in PaymentFlows THEN PaymentsRouterData_try_from(item)
                 ELSE RefundsRouterData_try_from(item),
                 ResponseHandlingFailed)


\* variant of build_error_response: a body that does not parse yields an
\* envelope of default values
build_error_response_best_effort(r) ==
    LET response == result_change_context(DlocalErrorResponse_parse(r.response),
                                          ResponseDeserializationFailed)
    IN  IF ~response.ok
        THEN Ok([status_code |-> r.status_code, code |-> "0", message |-> "",
                 reason |-> None])
        ELSE Ok([status_code |-> r.status_code,
                 code |-> ToString(response.val.code),
                 message |-> response.val.message,
                 reason |-> response.val.param])

build_error_response(r) ==
    LET response == result_change_context(DlocalErrorResponse_parse(r.response),
                                          ResponseDeserializationFailed)
    IN  IF ~response.ok THEN response
        ELSE Ok([status_code |-> r.status_code,
                 code |-> ToString(response.val.code),
                 message |-> response.val.message,
                 reason |-> response.val.param])

get_error_response(f, r) == build_error_response(r)

(***************************************************************************)
(* Inputs: raw responses                                                   *)
(***************************************************************************)
\* https://p.t/c?token=abc&step=2
UrlTwoParams ==
    <<"h", "t", "t", "p", "s", ":", "/", "/", "p", ".", "t", "/", "c", "?", "t", "o", "k", "e", "n", "=", "a", "b", "c", "&", "s", "t", "e", "p", "=", "2">>
\* https://p.t/c?a=1&a=2&b=x+y
UrlDuplicate ==
    <<"h", "t", "t", "p", "s", ":", "/", "/", "p", ".", "t", "/", "c", "?", "a", "=", "1", "&", "a", "=", "2", "&", "b", "=", "x", "+", "y">>
\* https://p.t/c
UrlNoQuery ==
    <<"h", "t", "t", "p", "s", ":", "/", "/", "p", ".", "t", "/", "c">>
\* p.t/c?a=1
UrlNoScheme ==
    <<"p", ".", "t", "/", "c", "?", "a", "=", "1">>
\* https://?a=1
UrlNoHost ==
    <<"h", "t", "t", "p", "s", ":", "/", "/", "?", "a", "=", "1">>

RedirectUrls == {UrlTwoParams, UrlDuplicate, UrlNoQuery, UrlNoScheme, UrlNoHost}

StatusTexts ==
    {"AUTHORIZED", "PAID", "VERIFIED", "CANCELLED", "PENDING", "REJECTED",
     "SUCCESS", "paid"}

ThreeDSecureValues ==
    {JNull, JStr("x"), JObj(<<>>), JObj("redirect_url" :> JNull),
     JObj("redirect_url" :> JNum(1))}
    \cup {JObj("redirect_url" :> JStr(u)) : u \in RedirectUrls}

ResponseBodies ==
    {NotJson, JStr("PAID"), JObj(<<>>),
     JObj("id" :> JStr("D-1")),
     JObj("status" :> JStr("PAID")),
     JObj(("status" :> JStr("PAID")) @@ ("id" :> JNum(7))),
     JObj(("status" :> JNum(1)) @@ ("id" :> JStr("D-1"))),
     JObj(("code" :> JNum(5001)) @@ ("message" :> JStr("Invalid request")))}
    \cup {JObj(("status" :> JStr(st)) @@ ("id" :> JStr("D-1"))) : st \in StatusTexts}
    \cup {JObj(("status" :> JStr(st)) @@ ("id" :> JStr("D-1"))
               @@ ("three_dsecure" :> td)) :
             st \in {"PENDING", "REJECTED"}, td \in ThreeDSecureValues}

Responses == {[status_code |-> 200, response |-> b] : b \in ResponseBodies}

ErrorBodies ==
    {NotJson, JObj(<<>>),
     JObj("message" :> JStr("Invalid request")),
     JObj("code" :> JNum(5001)),
     JObj(("code" :> JStr("5001")) @@ ("message" :> JStr("Invalid request"))),
     JObj(("code" :> JNum(5001)) @@ ("message" :> JNum(0))),
     JObj(("code" :> JNum(5001)) @@ ("message" :> JStr("Invalid request"))),
     JObj(("code" :> JNum(5001)) @@ ("message" :> JStr("Invalid request"))
          @@ ("param" :> JNull)),
     JObj(("code" :> JNum(5001)) @@ ("message" :> JStr("Invalid request"))
          @@ ("param" :> JNum(3))),
     JObj(("code" :> JNum(5001)) @@ ("message" :> JStr("Invalid request"))
          @@ ("param" :> JStr("amount"))),
     JObj(("status" :> JStr("REJECTED")) @@ ("id" :> JStr("D-1")))}

ErrorResponses ==
    {[status_code |-> c, response |-> b] : c \in {400, 500}, b \in ErrorBodies}

(***************************************************************************)
(* The orchestrator calls the connector: one call at a time is issued,     *)
(* runs to completion against the clock, and leaves its result.            *)
(***************************************************************************)
NoReq == <<>>
NoRes == <<>>

RequestOps ==
    {"build_request", "get_headers", "get_url", "get_request_body",
     "request_try_from", "auth_try_from"}


\* the tasks that call into the one shared connector value; each call has its
\* own frame of arguments and locals, and Dlocal itself has no fields
Callers == {"c1", "c2"}

NoCall == <<>>

IdleFrame ==
    [pc |-> "idle", call |-> NoCall, url |-> None, body |-> None,
     clock |-> None, headers |-> None, response |-> None, result |-> None]

Init ==
    /\ now = 0
    /\ pc = "idle"
    /\ op = "none"
    /\ flow = "none"
    /\ req = NoReq
    /\ res = NoRes
    /\ started = 0
    /\ clk = None
    /\ result = None
    /\ frames = [c \in Callers |-> IdleFrame]

Tick ==
    /\ now < MaxClock
    /\ now' = now + 1
    /\ UNCHANGED <<pc, op, flow, req, res, started, clk, result, frames>>

Invoke(o, f, rq, rs) ==
    /\ pc' = "running"
    /\ op' = o
    /\ flow' = f
    /\ req' = rq
    /\ res' = rs
    /\ started' = now
    /\ clk' = None
    /\ result' = None
    /\ UNCHANGED <<now, frames>>

InvokeRequestOp ==
    /\ pc = "idle"
    /\ \E o \in RequestOps, f \in Flows : \E rq \in RouterDatas(f) :
          Invoke(o, f, rq, NoRes)

\* a response answers a request that was built and sent
SentRouterDatas(f) ==
    {rq \in RouterDatas(f) :
        build_request(f, rq, Connectors, date_as_yyyymmddthhmmssmmmz(0, TRUE)).ok}

InvokeHandleResponse ==
    /\ pc = "idle"
    /\ \E f \in Flows : \E rq \in SentRouterDatas(f), rs \in Responses :
          Invoke("handle_response", f, rq, rs)

InvokeGetErrorResponse ==
    /\ pc = "idle"
    /\ \E f \in Flows, rs \in ErrorResponses :
          Invoke("get_error_response", f, NoReq, rs)

Return(r, reading) ==
    /\ pc' = "done"
    /\ result' = Some(r)
    /\ clk' = reading
    /\ UNCHANGED <<now, op, flow, req, res, started, frames>>


\* variant of BuildRequest: the timestamp is the clock reading taken when the
\* connector was constructed
BuildRequest_cached ==
    /\ pc = "running" /\ op = "build_request"
    /\ \E format_ok \in BOOLEAN :
          LET clock == date_as_yyyymmddthhmmssmmmz(0, format_ok)
          IN  Return(build_request(flow, req, Connectors, clock),
                     IF request_reads_clock(flow, req, Connectors)
                     THEN Some([at |-> now, date |-> clock]) ELSE None)

BuildRequest ==
    /\ pc = "running" /\ op = "build_request"
    /\ \E format_ok \in BOOLEAN :
          LET clock == date_as_yyyymmddthhmmssmmmz(now, format_ok)
          IN  Return(build_request(flow, req, Connectors, clock),
                     IF request_reads_clock(flow, req, Connectors)
                     THEN Some([at |-> now, date |-> clock]) ELSE None)

GetHeaders ==
    /\ pc = "running" /\ op = "get_headers"
    /\ \E format_ok \in BOOLEAN :
          LET clock == date_as_yyyymmddthhmmssmmmz(now, format_ok)
          IN  Return(get_headers(flow, req, clock),
                     IF headers_read_clock(flow, req)
                     THEN Some([at |-> now, date |-> clock]) ELSE None)

GetUrl ==
    /\ pc = "running" /\ op = "get_url"
    /\ Return(get_url(flow, req, Connectors), None)

GetRequestBody ==
    /\ pc = "running" /\ op = "get_request_body"
    /\ Return(get_request_body(flow, req), None)

RequestTryFrom ==
    /\ pc = "running" /\ op = "request_try_from"
    /\ Return(request_try_from(flow, req), None)

AuthTryFrom ==
    /\ pc = "running" /\ op = "auth_try_from"
    /\ Return(DlocalAuthType_try_from(req.connector_auth_type), None)

HandleResponse ==
    /\ pc = "running" /\ op = "handle_response"
    /\ Return(handle_response(flow, req, res), None)

GetErrorResponse ==
    /\ pc = "running" /\ op = "get_error_response"
    /\ Return(get_error_response(flow, res), None)

\* the orchestrator takes the result; the call's values are discarded
Discard ==
    /\ pc = "done"
    /\ pc' = "idle"
    /\ op' = "none"
    /\ flow' = "none"
    /\ req' = NoReq
    /\ res' = NoRes
    /\ started' = now
    /\ clk' = None
    /\ result' = None
    /\ UNCHANGED <<now, frames>>

Next ==
    \/ Tick
    \/ Discard
    \/ InvokeRequestOp
    \/ InvokeHandleResponse
    \/ InvokeGetErrorResponse
    \/ BuildRequest
    \/ GetHeaders
    \/ GetUrl
    \/ GetRequestBody
    \/ RequestTryFrom
    \/ AuthTryFrom
    \/ HandleResponse
    \/ GetErrorResponse

Spec == Init /\ [][Next]_vars

\* the call has returned
Done(o) == pc = "done" /\ op = o
Returned == Unwrap(result)


(***************************************************************************)
(* Concurrent callers: several tasks call build_request, handle_response   *)
(* and get_error_response on the one shared connector value, and their     *)
(* calls interleave statement by statement. Every value a call computes is *)
(* a local of that call.                                                   *)
(***************************************************************************)
call_vars == <<pc, op, flow, req, res, started, clk, result>>

ConcRequest(f, r) ==
    CASE f = "Authorize" ->
            /\ r.payment_method_data.variant = "Card"
            /\ r.capture_method = None /\ r.mandate_id = None
            /\ r.currency = "BRL"
      [] f = "PSync" -> r.connector_transaction_id.variant # "EncodedData"
      [] f = "Capture" ->
            r.amount_to_capture = None /\ r.amount = 1 /\ r.currency = "BRL"
      [] f = "Void" -> TRUE
      [] f \in RefundFlows ->
            /\ r.refund_amount = 1 /\ r.currency = "BRL"
            /\ r.connector_refund_id = None

ConcRouterDatas(f) ==
    {rq \in RouterDatas(f) :
        /\ rq.return_url = None
        /\ rq.address.billing = None
        /\ rq.connector_auth_type.variant \in {"SignatureKey", "HeaderKey"}
        /\ ConcRequest(f, rq.request)}

ConcResponses ==
    {rs \in Responses :
        rs.response \in
            {NotJson,
             JObj(("status" :> JStr("PAID")) @@ ("id" :> JStr("D-1"))),
             JObj(("status" :> JStr("PENDING")) @@ ("id" :> JStr("D-1"))
                  @@ ("three_dsecure" :> JObj("redirect_url" :> JStr(UrlTwoParams)))),
             JObj(("status" :> JStr("PENDING")) @@ ("id" :> JStr("D-1"))
                  @@ ("three_dsecure" :> JObj("redirect_url" :> JStr(UrlNoScheme))))}}

ConcErrorResponses ==
    {rs \in ErrorResponses :
        /\ rs.status_code = 400
        /\ rs.response \in
              {NotJson,
               JObj(("code" :> JNum(5001)) @@ ("message" :> JStr("Invalid request")))}}

ConcCalls ==
    UNION {
        {[op |-> "build_request", flow |-> f, req |-> rq, res |-> NoRes] :
            rq \in ConcRouterDatas(f)}
        \cup {[op |-> "handle_response", flow |-> f, req |-> rq, res |-> rs] :
            rq \in ConcRouterDatas(f) \cap SentRouterDatas(f), rs \in ConcResponses}
        \cup {[op |-> "get_error_response", flow |-> f, req |-> NoReq, res |-> rs] :
            rs \in ConcErrorResponses}
        : f \in Flows}

FirstStatement(o) ==
    CASE o = "build_request" -> "get_url"
      [] o = "handle_response" -> "parse_struct"
      [] o = "get_error_response" -> "build_error_response"

ConcInvoke(c) ==
    /\ frames[c].pc = "idle"
    /\ \E call \in ConcCalls :
          frames' = [frames EXCEPT ![c] =
                        [IdleFrame EXCEPT !.pc = FirstStatement(call.op),
                                          !.call = call]]
    /\ UNCHANGED <<now, call_vars>>

\* the call of caller c returns r
ConcReturn(c, r) ==
    /\ frames' = [frames EXCEPT ![c].pc = "done", ![c].result = Some(r)]
    /\ UNCHANGED <<now, call_vars>>


ConcGetUrl(c) ==
    /\ frames[c].pc = "get_url"
    /\ LET k == frames[c].call
           url == get_url(k.flow, k.req, Connectors)
       IN  IF ~url.ok THEN ConcReturn(c, url)
           ELSE /\ frames' = [frames EXCEPT ![c].pc = "get_request_body",
                                            ![c].url = Some(url.val)]
                /\ UNCHANGED <<now, call_vars>>

ConcGetRequestBody(c) ==
    /\ frames[c].pc = "get_request_body"
    /\ LET k == frames[c].call
           body == get_request_body(k.flow, k.req)
       IN  IF ~body.ok THEN ConcReturn(c, body)
           ELSE /\ frames' = [frames EXCEPT ![c].pc = "date_time",
                                            ![c].body = Some(body.val)]
                /\ UNCHANGED <<now, call_vars>>

ConcReadClock(c) ==
    /\ frames[c].pc = "date_time"
    /\ \E format_ok \in BOOLEAN :
          LET clock == date_as_yyyymmddthhmmssmmmz(now, format_ok)
              date == result_change_context(clock, RequestEncodingFailed)
          IN  frames' = [frames EXCEPT
                            ![c].clock = Some(clock),
                            ![c].pc = IF date.ok THEN "sign_message" ELSE "done",
                            ![c].result = IF date.ok THEN None ELSE Some(date)]
    /\ UNCHANGED <<now, call_vars>>

\* variant of ConcSign: the body to sign is read from a buffer the callers
\* share, which holds the other caller's body when it has built one
ConcSign_shared_buffer(c) ==
    /\ frames[c].pc = "sign_message"
    /\ LET k == frames[c].call
           other == CHOOSE d \in Callers : d # c
           buffer == IF IsSome(frames[other].body) THEN frames[other].body
                     ELSE frames[c].body
           body == Unwrap(buffer)
           dlocal_req == IF IsSome(body) THEN Unwrap(body) ELSE ""
           date == result_change_context(Unwrap(frames[c].clock),
                                         RequestEncodingFailed)
           headers == sign_headers(k.req, date.val, dlocal_req)
       IN  IF ~headers.ok THEN ConcReturn(c, headers)
           ELSE /\ frames' = [frames EXCEPT ![c].pc = "build",
                                            ![c].headers = Some(headers.val)]
                /\ UNCHANGED <<now, call_vars>>

ConcSign(c) ==
    /\ frames[c].pc = "sign_message"
    /\ LET k == frames[c].call
           body == Unwrap(frames[c].body)
           dlocal_req == IF IsSome(body) THEN Unwrap(body) ELSE ""
           date == result_change_context(Unwrap(frames[c].clock),
                                         RequestEncodingFailed)
           headers == sign_headers(k.req, date.val, dlocal_req)
       IN  IF ~headers.ok THEN ConcReturn(c, headers)
           ELSE /\ frames' = [frames EXCEPT ![c].pc = "build",
                                            ![c].headers = Some(headers.val)]
                /\ UNCHANGED <<now, call_vars>>

ConcBuild(c) ==
    /\ frames[c].pc = "build"
    /\ LET k == frames[c].call
           body == get_request_body(k.flow, k.req)
       IN  ConcReturn(c,
               IF k.flow \in BodyFlows /\ ~body.ok THEN body
               ELSE Ok(Some([method |-> Method(k.flow),
                             url |-> Unwrap(frames[c].url),
                             headers |-> Unwrap(frames[c].headers),
                             body |-> IF k.flow \in BodyFlows THEN body.val
                                      ELSE None])))

ConcParseStruct(c) ==
    /\ frames[c].pc = "parse_struct"
    /\ LET k == frames[c].call
           response ==
               result_change_context(
                   IF k.flow \in PaymentFlows
                   THEN DlocalPaymentsResponse_parse(k.res.response)
                   ELSE RefundResponse_parse(k.res.response),
                   deserialization_context(k.flow))
       IN  IF ~response.ok THEN ConcReturn(c, response)
           ELSE /\ frames' = [frames EXCEPT ![c].pc = "try_from",
                                            ![c].response = Some(response.val)]
                /\ UNCHANGED <<now, call_vars>>

ConcTryFrom(c) ==
    /\ frames[c].pc = "try_from"
    /\ LET k == frames[c].call
           item == [response |-> Unwrap(frames[c].response), data |-> k.req,
                    http_code |-> k.res.status_code]
       IN  ConcReturn(c,
               result_change_context(
                   IF k.flow \in PaymentFlows THEN PaymentsRouterData_try_from(item)
                   ELSE RefundsRouterData_try_from(item),
                   ResponseHandlingFailed))

ConcBuildErrorResponse(c) ==
    /\ frames[c].pc = "build_error_response"
    /\ ConcReturn(c, get_error_response(frames[c].call.flow, frames[c].call.res))

\* the caller takes the result; the frame is dropped
ConcDiscard(c) ==
    /\ frames[c].pc = "done"
    /\ frames' = [frames EXCEPT ![c] = IdleFrame]
    /\ UNCHANGED <<now, call_vars>>

NextConc ==
    \/ Tick
    \/ \E c \in Callers : ConcInvoke(c)
    \/ \E c \in Callers : ConcGetUrl(c)
    \/ \E c \in Callers : ConcGetRequestBody(c)
    \/ \E c \in Callers : ConcReadClock(c)
    \/ \E c \in Callers : ConcSign(c)
    \/ \E c \in Callers : ConcBuild(c)
    \/ \E c \in Callers : ConcParseStruct(c)
    \/ \E c \in Callers : ConcTryFrom(c)
    \/ \E c \in Callers : ConcBuildErrorResponse(c)
    \/ \E c \in Callers : ConcDiscard(c)

SpecConc == Init /\ [][NextConc]_vars

(***************************************************************************)
(* Properties                                                              *)
(***************************************************************************)
Failed == ~Returned.ok
FailedWith(kind) == ~Returned.ok /\ ErrorKind(Returned) = kind

\* the raw body does not deserialize into the response type of flow f
Undeserializable(f, body) ==
    IF f \in PaymentFlows THEN ~DlocalPaymentsResponse_ok(body)
    ELSE ~RefundResponse_ok(body)

\* C1: in each of the six flows, handle_response on a raw body that does not
\* deserialize into the flow's gateway response type fails with
\* ResponseDeserializationFailed and with no other error kind, and returns
\* no canonical result.
C1_DeserializationFailure ==
    (Done("handle_response") /\ Undeserializable(flow, res.response))
        => FailedWith(ResponseDeserializationFailed)

\* C2: whenever handle_response of any flow returns a result, the result has
\* the fields of the request snapshot and equals the snapshot in every field
\* other than status and response.
C2_SnapshotCarriedForward ==
    (Done("handle_response") /\ Returned.ok)
        => /\ DOMAIN Returned.val = DOMAIN req
           /\ \A k \in DOMAIN req \ {"status", "response"} : Returned.val[k] = req[k]

C2_Witness ==
    /\ Done("handle_response") /\ Returned.ok
    /\ flow = "Execute"
    /\ IsSome(req.return_url)
    /\ Returned.val.response # req.response

HeaderNames ==
    <<"Authorization", "X-Login", "X-Trans-Key", "X-Version", "X-Date", "Content-Type">>

BuiltRequest == Unwrap(Returned.val)
HeaderValue(rq, name) ==
    rq.headers[CHOOSE i \in 1..Len(rq.headers) : rq.headers[i][1] = name][2]
BodyText(rq) == IF IsSome(rq.body) THEN Unwrap(rq.body) ELSE ""

\* C3: every request build_request returns carries exactly the six headers
\* Authorization, X-Login, X-Trans-Key, X-Version = "2.1", X-Date and
\* Content-Type = "application/json"; X-Login, X-Trans-Key are the credentials,
\* X-Date is the timestamp the call read, and Authorization is the prefix
\* "V2-HMAC-SHA256, Signature: " followed by the hex HMAC-SHA-256, keyed by the
\* signing secret, of login_id ++ that X-Date value ++ the body attached to the
\* same request (the empty string for PSync, Void and RefundSync, which attach
\* no body).
C3_SignedHeaders ==
    (Done("build_request") /\ Returned.ok)
        => LET rq == BuiltRequest
               auth == req.connector_auth_type
           IN  /\ Len(rq.headers) = 6
               /\ [i \in 1..6 |-> rq.headers[i][1]] = HeaderNames
               /\ HeaderValue(rq, "X-Login") = auth.api_key
               /\ HeaderValue(rq, "X-Trans-Key") = auth.key1
               /\ HeaderValue(rq, "X-Version") = "2.1"
               /\ HeaderValue(rq, "Content-Type") = "application/json"
               /\ IsSome(clk) /\ Unwrap(clk).date.ok
               /\ HeaderValue(rq, "X-Date") = Unwrap(clk).date.val
               /\ flow \in {"PSync", "Void", "RSync"} => rq.body = None
               /\ flow \in {"Authorize", "Capture", "Execute"} => IsSome(rq.body)
               /\ HeaderValue(rq, "Authorization") =
                     "V2-HMAC-SHA256, Signature: "
                     \o encode([alg |-> "HMAC-SHA-256", key |-> auth.api_secret,
                                msg |-> auth.api_key \o HeaderValue(rq, "X-Date")
                                        \o BodyText(rq)])

C3_Witness ==
    /\ Done("build_request") /\ Returned.ok
    /\ flow = "Capture"
    /\ IsSome(BuiltRequest.body)
    /\ Unwrap(clk).at > 0

\* C4: a request build_request returns has the method, the path under the
\* configured base URL and the body presence of the request-shape table:
\* Authorize POST secure_payments with body; PSync GET payments/{id}/status
\* without body; Capture POST payments with the body {authorization_id,
\* amount, currency, order_id}; Void POST payments/{id}/cancel without body;
\* RefundExecute POST refunds with body; RefundSync GET refunds/{id}/status
\* without body, {id} being the identifier the flow's request transformer
\* yields.
C4_RequestShapes ==
    (Done("build_request") /\ Returned.ok)
        => LET rq == BuiltRequest
               base == Connectors.dlocal.base_url
               t == request_try_from(flow, req).val
           IN  CASE flow = "Authorize" ->
                        /\ rq.method = "Post" /\ rq.url = base \o "secure_payments"
                        /\ IsSome(rq.body)
                        /\ rq.body = Some(serialize_DlocalPaymentsRequest(t))
                 [] flow = "PSync" ->
                        /\ rq.method = "Get" /\ rq.body = None
                        /\ rq.url = base \o "payments/" \o t.authz_id \o "/status"
                 [] flow = "Capture" ->
                        /\ rq.method = "Post" /\ rq.url = base \o "payments"
                        /\ DOMAIN t = {"authorization_id", "amount", "currency", "order_id"}
                        /\ rq.body =
                              Some("{\"authorization_id\":\"" \o t.authorization_id
                                   \o "\",\"amount\":" \o ToString(t.amount)
                                   \o ",\"currency\":\"" \o t.currency
                                   \o "\",\"order_id\":\"" \o t.order_id \o "\"}")
                 [] flow = "Void" ->
                        /\ rq.method = "Post" /\ rq.body = None
                        /\ rq.url = base \o "payments/" \o t.cancel_id \o "/cancel"
                 [] flow = "Execute" ->
                        /\ rq.method = "Post" /\ rq.url = base \o "refunds"
                        /\ IsSome(rq.body)
                        /\ rq.body = Some(serialize_RefundRequest(t))
                 [] flow = "RSync" ->
                        /\ rq.method = "Get" /\ rq.body = None
                        /\ rq.url = base \o "refunds/" \o t.refund_id \o "/status"

C4_Witness ==
    /\ Done("build_request") /\ Returned.ok
    /\ flow = "RSync"
    /\ BuiltRequest.method = "Get"

IdFlows == {"PSync", "Void", "RSync"}
IdOps == {"request_try_from", "get_url", "build_request"}

\* the canonical request carries no connector-side transaction/refund id
NoConnectorId ==
    CASE flow = "PSync" ->
            req.request.connector_transaction_id.variant # "ConnectorTransactionId"
      [] flow = "Void" -> FALSE
      [] flow = "RSync" -> req.request.connector_refund_id = None

ConnectorId ==
    CASE flow = "PSync" -> req.request.connector_transaction_id.id
      [] flow = "Void" -> req.request.connector_transaction_id
      [] flow = "RSync" -> Unwrap(req.request.connector_refund_id)

IdPath(id) ==
    Connectors.dlocal.base_url
    \o (CASE flow = "PSync" -> "payments/" \o id \o "/status"
          [] flow = "Void" -> "payments/" \o id \o "/cancel"
          [] flow = "RSync" -> "refunds/" \o id \o "/status")

\* the URL of a returned get_url or build_request
ReturnedUrl == IF op = "get_url" THEN Returned.val ELSE BuiltRequest.url

\* C5 as stated: in PSync, Void and RefundSync, a canonical request without a
\* connector-side identifier makes the request transformer, get_url and
\* build_request fail with MissingConnectorTransactionID, and an identifier
\* that is present is the one in the URL path.
C5_MissingIdFails ==
    (pc = "done" /\ op \in IdOps /\ flow \in IdFlows)
        => /\ NoConnectorId => FailedWith(MissingConnectorTransactionID)
           /\ (~NoConnectorId /\ Returned.ok /\ op # "request_try_from")
                 => ReturnedUrl = IdPath(ConnectorId)

\* C5 amended: in PSync, a canonical request without a connector transaction
\* id makes the request transformer, get_url and build_request fail with
\* MissingConnectorTransactionID and no request is produced. A Void request
\* always carries the id, and RefundSync without a connector refund id falls
\* back to the request's own refund_id: in neither flow does the transformer or
\* get_url fail, and no call fails with MissingConnectorTransactionID. In all
\* three flows a URL that is produced embeds the connector-side identifier
\* when the request carries one (for RefundSync the refund_id otherwise).
C5_MissingIdPolicy ==
    (pc = "done" /\ op \in IdOps /\ flow \in IdFlows)
        => /\ (flow = "PSync" /\ NoConnectorId)
                 => FailedWith(MissingConnectorTransactionID)
           /\ (flow # "PSync" /\ op # "build_request") => Returned.ok
           /\ (flow # "PSync" /\ Failed)
                 => ErrorKind(Returned) # MissingConnectorTransactionID
           /\ (Returned.ok /\ op # "request_try_from")
                 => ReturnedUrl = IdPath(IF NoConnectorId THEN req.request.refund_id
                                         ELSE ConnectorId)

C5_Witness ==
    /\ Done("build_request") /\ flow = "RSync"
    /\ req.request.connector_refund_id = None
    /\ Returned.ok
    /\ BuiltRequest.url = Connectors.dlocal.base_url \o "refunds/ref1/status"

\* C6: credential resolution succeeds exactly for the signature-key variant
\* and then yields its three secrets; for any other variant it fails with
\* FailedToObtainAuthType, and get_headers and build_request of every flow
\* return an error: no headers, no request.
C6_CredentialResolution ==
    /\ Done("auth_try_from") =>
          IF req.connector_auth_type.variant = "SignatureKey"
          THEN /\ Returned.ok
               /\ Returned.val = [x_login |-> req.connector_auth_type.api_key,
                                  x_trans_key |-> req.connector_auth_type.key1,
                                  secret |-> req.connector_auth_type.api_secret]
          ELSE FailedWith(FailedToObtainAuthType)
    /\ (pc = "done" /\ op \in {"get_headers", "build_request"}
        /\ req.connector_auth_type.variant # "SignatureKey") => Failed

C6_Witness ==
    /\ Done("build_request")
    /\ req.connector_auth_type.variant = "BodyKey"
    /\ FailedWith(FailedToObtainAuthType)

\* the canonical status the table gives each status text of the gateway
PaymentStatusTable ==
    [AUTHORIZED |-> "Authorized", VERIFIED |-> "Authorized", PAID |-> "Charged",
     PENDING |-> "AuthenticationPending", CANCELLED |-> "Voided",
     REJECTED |-> "AuthenticationFailed"]

RefundStatusTable ==
    [SUCCESS |-> "Success", PENDING |-> "Pending", REJECTED |-> "ManualReview",
     CANCELLED |-> "Failure"]

\* a body {status, id} with a status text of the table and nothing else
PlainBody(table) ==
    /\ res.response.t = "obj"
    /\ DOMAIN res.response.fields = {"status", "id"}
    /\ Member(res.response, "id").t = "str"
    /\ Member(res.response, "status").t = "str"
    /\ Member(res.response, "status").s \in DOMAIN table

\* C7: handle_response of every payment flow maps each of the six gateway
\* statuses by the table (Authorized and Verified to Authorized, Paid to
\* Charged, Pending to AuthenticationPending, Cancelled to Voided, Rejected to
\* AuthenticationFailed): a body carrying one of the six statuses never fails
\* on its status, and the status of every result is the table's entry.
C7_PaymentStatusMapping ==
    (Done("handle_response") /\ flow \in PaymentFlows)
        => /\ PlainBody(PaymentStatusTable) => Returned.ok
           /\ Returned.ok =>
                 Returned.val.status =
                     PaymentStatusTable[Member(res.response, "status").s]

C7_Witness ==
    /\ Done("handle_response") /\ flow = "Void" /\ Returned.ok
    /\ Member(res.response, "status").s = "VERIFIED"
    /\ Returned.val.status = "Authorized"

\* C8: handle_response of RefundExecute and RefundSync maps each of the four
\* gateway refund statuses by Success to Success, Pending to Pending, Rejected
\* to ManualReview, Cancelled to Failure: a body carrying one of the four never
\* fails, refund_status of the result is the mapped status and
\* connector_refund_id is the id of the body.
C8_RefundStatusMapping ==
    (Done("handle_response") /\ flow \in RefundFlows)
        => /\ PlainBody(RefundStatusTable) => Returned.ok
           /\ Returned.ok =>
                 /\ Returned.val.response.ok
                 /\ Returned.val.response.val.refund_status =
                       RefundStatusTable[Member(res.response, "status").s]
                 /\ Returned.val.response.val.connector_refund_id =
                       Member(res.response, "id").s

C8_Witness ==
    /\ Done("handle_response") /\ flow = "RSync" /\ Returned.ok
    /\ Member(res.response, "status").s = "REJECTED"
    /\ Returned.val.response.val.refund_status = "ManualReview"

\* C9: the Capture request transformer never fails; the amount of the capture
\* body is the original amount when amount_to_capture is None and v when it is
\* Some(v), authorization_id is the connector transaction id of the request
\* and order_id its payment id; the body get_request_body returns is the
\* serialization of these values.
C9_CaptureAmount ==
    LET expected == IF req.request.amount_to_capture = None
                    THEN req.request.amount
                    ELSE req.request.amount_to_capture[1]
    IN  /\ (Done("request_try_from") /\ flow = "Capture")
              => /\ Returned.ok
                 /\ Returned.val.amount = expected
                 /\ Returned.val.authorization_id = req.request.connector_transaction_id
                 /\ Returned.val.order_id = req.payment_id
        /\ (Done("get_request_body") /\ flow = "Capture")
              => /\ Returned.ok
                 /\ Returned.val =
                       Some("{\"authorization_id\":\"" \o req.request.connector_transaction_id
                            \o "\",\"amount\":" \o ToString(expected)
                            \o ",\"currency\":\"" \o req.request.currency
                            \o "\",\"order_id\":\"" \o req.payment_id \o "\"}")

C9_Witness ==
    /\ Done("request_try_from") /\ flow = "Capture"
    /\ req.request.amount_to_capture = Some(1)
    /\ req.request.amount = 2
    /\ Returned.val.amount = 1

\* C10: the Authorize request transformer on a request with no email fails
\* with MissingRequiredField("email_id"), whatever the payment method, and
\* get_request_body of such a request returns no body.
C10_MissingEmail ==
    (pc = "done" /\ op \in {"request_try_from", "get_request_body"}
     /\ flow = "Authorize" /\ req.request.email = None)
        => /\ op = "request_try_from"
                 => /\ FailedWith(MissingRequiredField("email_id"))
                    /\ Returned.err = <<MissingRequiredField("email_id")>>
           /\ op = "get_request_body" => Failed

C10_Witness ==
    /\ Done("request_try_from") /\ flow = "Authorize"
    /\ req.request.email = None
    /\ req.request.payment_method_data.variant = "Card"
    /\ FailedWith(MissingRequiredField("email_id"))


AuthorizeOps == {"request_try_from", "get_request_body"}
PaymentMethodVariant == req.request.payment_method_data.variant

\* what the claims about the payment-method variants say of a returned
\* Authorize request transformation or body
PaymentMethodOutcome ==
    /\ PaymentMethodVariant \notin {"Card", "Wallet"}
          => /\ Failed
             /\ op = "request_try_from"
                   => FailedWith(NotImplemented("Current Payment Method"))
             /\ op = "get_request_body"
                   => Returned.err[1] = NotImplemented("Current Payment Method")
    /\ (PaymentMethodVariant = "Card" /\ op = "request_try_from")
          => /\ Returned.ok
             /\ IsSome(Returned.val.card)
             /\ Returned.val.payment_method_flow = "DIRECT"
    /\ (PaymentMethodVariant = "Wallet" /\ op = "request_try_from")
          => /\ Returned.ok
             /\ Returned.val.card = None
             /\ Returned.val.payment_method_flow = "REDIRECT"

\* C11 as stated: an Authorize request whose payment-method data is neither
\* Card nor Wallet yields NotImplemented and no gateway request; a Card
\* variant yields a request with card present and flow DIRECT, a Wallet
\* variant a request with card absent and flow REDIRECT.
C11_PaymentMethodVariants ==
    (pc = "done" /\ op \in AuthorizeOps /\ flow = "Authorize")
        => PaymentMethodOutcome

\* C11 amended: the same, for an Authorize request that carries an email; a
\* request without an email fails with MissingRequiredField("email_id")
\* whatever its payment-method variant, and yields no gateway request either.
C11_PaymentMethodVariantsWithEmail ==
    (pc = "done" /\ op \in AuthorizeOps /\ flow = "Authorize")
        => IF IsSome(req.request.email) THEN PaymentMethodOutcome
           ELSE /\ Failed
                /\ Returned.err[1] = MissingRequiredField("email_id")

C11_Witness ==
    /\ Done("request_try_from") /\ flow = "Authorize"
    /\ IsSome(req.request.email)
    /\ PaymentMethodVariant = "BankTransfer"
    /\ FailedWith(NotImplemented("Current Payment Method"))


\* the raw body has the gateway's error shape: an object with a numeric code,
\* a message string and, if present and not null, a param string
ErrorShape(body) ==
    /\ body.t = "obj"
    /\ "code" \in DOMAIN body.fields /\ body.fields["code"].t = "num"
    /\ "message" \in DOMAIN body.fields /\ body.fields["message"].t = "str"
    /\ "param" \in DOMAIN body.fields => body.fields["param"].t \in {"null", "str"}

ErrorParam(body) ==
    IF "param" \in DOMAIN body.fields /\ body.fields["param"].t = "str"
    THEN Some(body.fields["param"].s) ELSE None

\* C12: get_error_response of every flow, for every status code, returns for
\* a body of the shape {code, message, param} the envelope {status_code of the
\* response, code, message, reason = param, absent when param is}, and for
\* any other body fails with ResponseDeserializationFailed, never returning an
\* envelope.
C12_ErrorNormalizer ==
    Done("get_error_response")
        => IF ErrorShape(res.response)
           THEN /\ Returned.ok
                /\ Returned.val =
                      [status_code |-> res.status_code,
                       code |-> ToString(res.response.fields["code"].n),
                       message |-> res.response.fields["message"].s,
                       reason |-> ErrorParam(res.response)]
           ELSE FailedWith(ResponseDeserializationFailed)

C12_Witness ==
    /\ Done("get_error_response") /\ flow = "Void"
    /\ res.status_code = 400
    /\ res.response.t = "obj" /\ DOMAIN res.response.fields = {"message"}
    /\ FailedWith(ResponseDeserializationFailed)


\* the redirect URL text of a body that deserializes, if it carries one
HasRedirectUrl(body) ==
    /\ "three_dsecure" \in DOMAIN body.fields
    /\ body.fields["three_dsecure"].t = "obj"
    /\ "redirect_url" \in DOMAIN body.fields["three_dsecure"].fields
    /\ body.fields["three_dsecure"].fields["redirect_url"].t = "str"

RedirectUrlOf(body) == body.fields["three_dsecure"].fields["redirect_url"].s

MalformedUrls == {UrlNoScheme, UrlNoHost}

\* the query parameters of the well-formed redirect URLs
ExpectedFormFields(u) ==
    CASE u = UrlTwoParams ->
            (<<"t", "o", "k", "e", "n">> :> <<"a", "b", "c">>)
            @@ (<<"s", "t", "e", "p">> :> <<"2">>)
      [] u = UrlDuplicate ->
            (<<"a">> :> <<"2">>) @@ (<<"b">> :> <<"x", " ", "y">>)
      [] u = UrlNoQuery -> <<>>

\* C13: for a payment response that deserializes, handle_response returns a
\* result without redirect when the body has no redirect URL (no three_dsecure
\* object or one without redirect_url); when the redirect URL is well formed
\* the result carries {url = the text unchanged, method = GET, form_fields =
\* the query parameters, the last occurrence of a repeated name winning}; when
\* it is malformed handle_response fails with ResponseHandlingFailed.
C13_RedirectExtraction ==
    (Done("handle_response") /\ flow \in PaymentFlows
     /\ DlocalPaymentsResponse_ok(res.response))
        => IF ~HasRedirectUrl(res.response)
           THEN /\ Returned.ok
                /\ Returned.val.response.val.redirection_data = None
                /\ Returned.val.response.val.redirect = FALSE
           ELSE IF RedirectUrlOf(res.response) \in MalformedUrls
           THEN FailedWith(ResponseHandlingFailed)
           ELSE /\ Returned.ok
                /\ Returned.val.response.val.redirect = TRUE
                /\ Returned.val.response.val.redirection_data =
                      Some([url |-> RedirectUrlOf(res.response),
                            method |-> "Get",
                            form_fields |->
                                ExpectedFormFields(RedirectUrlOf(res.response))])

C13_Witness ==
    /\ Done("handle_response") /\ flow = "Authorize" /\ Returned.ok
    /\ HasRedirectUrl(res.response)
    /\ RedirectUrlOf(res.response) = UrlDuplicate
    /\ Unwrap(Returned.val.response.val.redirection_data).form_fields[<<"a">>] = <<"2">>


\* handle_response meets a failure: the body does not deserialize, or its
\* redirect URL does not parse
ResponseFailure ==
    \/ Undeserializable(flow, res.response)
    \/ /\ flow \in PaymentFlows
       /\ HasRedirectUrl(res.response)
       /\ RedirectUrlOf(res.response) \in MalformedUrls

ResponseErrorKinds ==
    {ResponseDeserializationFailed, ResponseHandlingFailed, RequestEncodingFailed}

\* C14: handle_response of every flow never returns a result for a failure:
\* when the body does not deserialize or its redirect URL does not parse, it
\* returns an error of a ConnectorError kind and no canonical result; and in a
\* result, a gateway status of Rejected or Cancelled is never the canonical
\* status Authorized or Charged, nor the refund status Success.
C14_NoMaskedFailure ==
    Done("handle_response")
        => /\ ResponseFailure
                 => /\ Failed
                    /\ DOMAIN Returned = {"ok", "err"}
                    /\ ErrorKind(Returned) \in ResponseErrorKinds
           /\ (Returned.ok /\ Member(res.response, "status").s \in {"REJECTED", "CANCELLED"})
                 => IF flow \in PaymentFlows
                    THEN Returned.val.status \notin {"Authorized", "Charged"}
                    ELSE Returned.val.response.val.refund_status # "Success"

C14_Witness ==
    /\ Done("handle_response") /\ flow = "Capture"
    /\ ~Undeserializable(flow, res.response)
    /\ HasRedirectUrl(res.response)
    /\ RedirectUrlOf(res.response) = UrlNoScheme
    /\ FailedWith(ResponseHandlingFailed)


\* the header step of the call fails on its input, whatever the clock reads
HeaderStepFails ==
    \/ ~get_request_body(flow, req).ok
    \/ ~DlocalAuthType_try_from(req.connector_auth_type).ok

HeaderStepErrorKinds == {RequestEncodingFailed, FailedToObtainAuthType}

SigningOps == {"get_headers", "build_request"}

\* the headers a returned get_headers or build_request produced
ReturnedHeaders ==
    IF op = "get_headers" THEN [headers |-> Returned.val] ELSE BuiltRequest

\* C16: every get_headers/build_request call that produces headers has read
\* the clock itself, at a time between the start of the call and its return,
\* and its X-Date is the formatted value of that reading: the timestamp is
\* never older than the start of the call, so it is never a reading an
\* earlier call (which returned before this one started) obtained at an
\* earlier clock value.
C16_FreshTimestamp ==
    (pc = "done" /\ op \in SigningOps /\ Returned.ok)
        => /\ clk # None
           /\ Unwrap(clk).at \in started..now
           /\ HeaderValue(ReturnedHeaders, "X-Date")
                 = date_as_yyyymmddthhmmssmmmz(Unwrap(clk).at, TRUE).val

C16_Witness ==
    /\ Done("build_request") /\ Returned.ok
    /\ started > 0
    /\ HeaderValue(BuiltRequest, "X-Date")
          = date_as_yyyymmddthhmmssmmmz(started, TRUE).val
    /\ HeaderValue(BuiltRequest, "X-Date")
          # date_as_yyyymmddthhmmssmmmz(0, TRUE).val


\* a clock value for a call that returns before it reads the clock
ClockNotRead == date_as_yyyymmddthhmmssmmmz(0, TRUE)

\* the result of the frame's call when it runs alone on its own inputs and
\* its own clock reading
AloneResult(fr) ==
    LET k == fr.call
    IN  CASE k.op = "build_request" ->
                build_request(k.flow, k.req, Connectors,
                              IF IsSome(fr.clock) THEN Unwrap(fr.clock)
                              ELSE ClockNotRead)
          [] k.op = "handle_response" -> handle_response(k.flow, k.req, k.res)
          [] k.op = "get_error_response" -> get_error_response(k.flow, k.res)

\* every local the frame holds was computed from the frame's own call
OwnLocals(fr) ==
    LET k == fr.call
    IN  /\ IsSome(fr.url) => fr.url = Some(get_url(k.flow, k.req, Connectors).val)
        /\ IsSome(fr.body) => fr.body = Some(get_request_body(k.flow, k.req).val)
        /\ IsSome(fr.headers)
              => fr.headers = Some(get_headers(k.flow, k.req, Unwrap(fr.clock)).val)
        /\ IsSome(fr.response)
              => fr.response =
                    Some((IF k.flow \in PaymentFlows
                          THEN DlocalPaymentsResponse_parse(k.res.response)
                          ELSE RefundResponse_parse(k.res.response)).val)

\* C17: for every interleaving of build_request, handle_response and
\* get_error_response calls of any flows by concurrent callers of the one
\* connector value, each call that has returned holds the result the call
\* gives when it runs alone on its own inputs and clock reading, and every
\* value a call in flight holds was computed from that call's own inputs: no
\* call reads or writes what another call wrote.
C17_CallsAreIsolated ==
    \A c \in Callers :
        frames[c].pc # "idle"
            => /\ OwnLocals(frames[c])
               /\ frames[c].pc = "done"
                     => frames[c].result = Some(AloneResult(frames[c]))

C17_Witness ==
    /\ frames["c1"].pc = "done"
    /\ frames["c1"].call.op = "build_request"
    /\ frames["c1"].call.flow = "Authorize"
    /\ Unwrap(frames["c1"].result).ok
    /\ frames["c2"].pc = "build"
    /\ frames["c2"].call.flow = "Authorize"
    /\ frames["c2"].body # frames["c1"].body
    /\ Unwrap(frames["c2"].clock) = Unwrap(frames["c1"].clock)


\* the country of the billing address of the call's RouterData, if it has one
BillingCountry ==
    IF IsSome(req.address.billing) THEN Unwrap(req.address.billing).country
    ELSE None

\* C18 as stated: an Authorize request with the Card payment method (and an
\* email) takes the country of the gateway request from the billing address,
\* and the transformation fails when the billing address has no country.
C18_CountryFromBillingAddress ==
    (/\ Done("request_try_from") /\ flow = "Authorize"
     /\ IsSome(req.request.email)
     /\ req.request.payment_method_data.variant = "Card")
        => IF IsSome(BillingCountry)
           THEN Returned.ok /\ Returned.val.country = BillingCountry
           ELSE Failed


CardRequest ==
    /\ Done("request_try_from") /\ flow = "Authorize"
    /\ IsSome(req.request.email)
    /\ req.request.payment_method_data.variant = "Card"

\* C19: the gateway request of an Authorize request with the Card payment
\* method carries a card whose capture flag is "true" exactly when
\* capture_method is Automatic ("false" for Manual, any other method and an
\* absent capture_method), and whose installments is "1" with installments_id
\* the mandate id exactly when a mandate reference is present; both
\* installment fields are absent otherwise.
C19_CaptureFlagAndInstallments ==
    CardRequest
        => /\ Returned.ok
           /\ IsSome(Returned.val.card)
           /\ LET card == Unwrap(Returned.val.card)
                  mandate == req.request.mandate_id
              IN  /\ card.capture \in {"true", "false"}
                  /\ card.capture = "true"
                        <=> req.request.capture_method = Some("Automatic")
                  /\ IF IsSome(mandate)
                     THEN /\ card.installments = Some("1")
                          /\ card.installments_id = Some(Unwrap(mandate).mandate_id)
                     ELSE /\ card.installments = None
                          /\ card.installments_id = None

C19_Witness ==
    /\ CardRequest
    /\ req.request.capture_method = Some("Scheduled")
    /\ IsSome(req.request.mandate_id)
    /\ Unwrap(Returned.val.card).capture = "false"
    /\ Unwrap(Returned.val.card).installments = Some("1")


BodyOps == {"get_request_body", "get_headers", "build_request"}

\* the request transformer of a body-carrying flow fails on the call's input
TransformerFails == flow \in BodyFlows /\ ~request_try_from(flow, req).ok

\* C20: in Authorize, Capture and RefundExecute, a failure of the request
\* transformer reaches the caller of get_request_body, get_headers and
\* build_request as the transformer's error under the kind
\* RequestEncodingFailed, before the clock is read and whatever the auth
\* value is: with a non-signature-key auth value the call still reports
\* RequestEncodingFailed, not FailedToObtainAuthType.
C20_TransformerFailureSurfaces ==
    (pc = "done" /\ op \in BodyOps /\ TransformerFails)
        => /\ FailedWith(RequestEncodingFailed)
           /\ Returned = result_change_context(request_try_from(flow, req),
                                               RequestEncodingFailed)
           /\ clk = None

C20_Witness ==
    /\ Done("build_request") /\ flow = "Authorize"
    /\ TransformerFails
    /\ req.connector_auth_type.variant = "HeaderKey"
    /\ FailedWith(RequestEncodingFailed)

====
